---------------------------- MODULE Spec2Model ----------------------------
(***************************************************************************)
(* check_presigned_url_expiry.py: a command-line program that reads one    *)
(* presigned URL, takes X-Amz-Date and X-Amz-Expires from its query        *)
(* string, computes the expiry instant and compares it with the clock.     *)
(*                                                                         *)
(* Text is a sequence of characters, and a character is a string.  A       *)
(* printable ASCII character other than the grave accent is the string of  *)
(* that one character.  Every other character is named by its code point:  *)
(* "U+" and the code point in upper-case hexadecimal digits, four at       *)
(* least: "U+0009" is the tab, "U+000A" the line feed, "U+0060" the grave  *)
(* accent, "U+00A0" the no-break space, "U+0663" the Arabic-Indic digit    *)
(* three, "U+FFFD" the replacement character.  The text of sys.argv is     *)
(* text the interpreter could decode: it holds no lone surrogate.          *)
(*                                                                         *)
(* A Python value is a record with a field "tag" naming its type.          *)
(***************************************************************************)
EXTENDS Integers, Sequences, FiniteSets, TLC

(***************************************************************************)
(* Characters and text helpers                                             *)
(***************************************************************************)
Digits == <<"0", "1", "2", "3", "4", "5", "6", "7", "8", "9">>

\* an ASCII digit, and its value
IsDigit(c) == \E i \in 1..Len(Digits) : Digits[i] = c

DigitVal(c) == (CHOOSE i \in 1..Len(Digits) : Digits[i] = c) - 1

LowerLetters == {"a", "b", "c", "d", "e", "f", "g", "h", "i", "j", "k", "l", "m",
                 "n", "o", "p", "q", "r", "s", "t", "u", "v", "w", "x", "y", "z"}

UpperLetters == {"A", "B", "C", "D", "E", "F", "G", "H", "I", "J", "K", "L", "M",
                 "N", "O", "P", "Q", "R", "S", "T", "U", "V", "W", "X", "Y", "Z"}

\* c.isascii() and c.isalpha()
IsAlpha(c) == c \in LowerLetters \/ c \in UpperLetters

\* urllib.parse.scheme_chars: letters, digits and "+-."
IsSchemeChar(c) == IsAlpha(c) \/ IsDigit(c) \/ c \in {"+", "-", "."}

\* The printable ASCII characters, code 32 (space) to 126 (~), in order.
Ascii == <<" ", "!", "\"", "#", "$", "%", "&", "'", "(", ")", "*", "+", ",", "-", ".", "/",
           "0", "1", "2", "3", "4", "5", "6", "7", "8", "9", ":", ";", "<", "=", ">", "?",
           "@", "A", "B", "C", "D", "E", "F", "G", "H", "I", "J", "K", "L", "M", "N", "O",
           "P", "Q", "R", "S", "T", "U", "V", "W", "X", "Y", "Z", "[", "\\", "]", "^", "_",
           "U+0060", "a", "b", "c", "d", "e", "f", "g", "h", "i", "j", "k", "l", "m", "n", "o",
           "p", "q", "r", "s", "t", "u", "v", "w", "x", "y", "z", "{", "|", "}", "~">>

UpperHex == <<"0", "1", "2", "3", "4", "5", "6", "7", "8", "9", "A", "B", "C", "D", "E", "F">>

\* n in hexadecimal digits, width of them at least
RECURSIVE HexText(_, _)
HexText(n, width) ==
    IF n = 0 /\ width <= 0 THEN ""
    ELSE HexText(n \div 16, width - 1) \o UpperHex[(n % 16) + 1]

\* chr(code): the character of a code point
CharOf(code) ==
    IF code >= 32 /\ code <= 126 /\ code # 96 THEN Ascii[code - 31]
    ELSE "U+" \o HexText(code, 4)

AsciiChars == {CharOf(code) : code \in 0..127}

\* c.isascii()
IsAscii(c) == c \in AsciiChars

\* what bytes.decode(errors='replace') puts for bytes that are no UTF-8
ReplacementChar == CharOf(65533)

\* urllib.parse._WHATWG_C0_CONTROL_OR_SPACE: the characters of code 0 to 32
WHATWG_C0_CONTROL_OR_SPACE == {CharOf(code) : code \in 0..32}

\* urllib.parse._UNSAFE_URL_BYTES_TO_REMOVE: tab, carriage return, line feed
UNSAFE_URL_BYTES_TO_REMOVE == {CharOf(9), CharOf(13), CharOf(10)}

\* Py_ISSPACE: space, tab, line feed, vertical tab, form feed, carriage return
Py_ISSPACE == {CharOf(code) : code \in {32, 9, 10, 11, 12, 13}}

\* Py_UNICODE_ISSPACE beyond ASCII (Unicode 14.0)
UnicodeSpaces ==
    {CharOf(code) : code \in {133, 160, 5760, 8232, 8233, 8239, 8287, 12288} \cup (8192..8202)}

\* The code points of the decimal digits zero (Unicode 14.0, category Nd):
\* the digits one to nine of each script follow its zero.
DecimalZeros ==
    {48, 1632, 1776, 1984, 2406, 2534, 2662, 2790, 2918, 3046, 3174, 3302, 3430, 3558, 3664,
     3792, 3872, 4160, 4240, 6112, 6160, 6470, 6608, 6784, 6800, 6992, 7088, 7232, 7248,
     42528, 43216, 43264, 43472, 43504, 43600, 44016, 65296, 66720, 68912, 69734, 69872,
     69942, 70096, 70384, 70736, 70864, 71248, 71360, 71472, 71904, 72016, 72784, 73040,
     73120, 92768, 92864, 93008, 120782, 120792, 120802, 120812, 120822, 123200, 123632,
     125264, 130032}

\* the characters of each decimal value
DecimalDigits == [k \in 0..9 |-> {CharOf(zero + k) : zero \in DecimalZeros}]

\* Py_UNICODE_ISDECIMAL, the \d of a str pattern; Py_UNICODE_TODECIMAL
IsDecimal(c) == \E k \in 0..9 : c \in DecimalDigits[k]

DecimalVal(c) == CHOOSE k \in 0..9 : c \in DecimalDigits[k]

\* The characters beyond ASCII whose NFKC normalization holds one of "/?#@:"
\* (Unicode 14.0).
NFKC_UNSAFE ==
    {CharOf(code) : code \in {8263, 8264, 8265, 8448, 8449, 8453, 8454, 10868, 65043, 65046,
                              65109, 65110, 65119, 65131, 65283, 65295, 65306, 65311, 65312}}

HexDigits == <<"0", "1", "2", "3", "4", "5", "6", "7", "8", "9",
               "a", "b", "c", "d", "e", "f", "A", "B", "C", "D", "E", "F">>

IsHex(c) == \E i \in 1..Len(HexDigits) : HexDigits[i] = c

HexVal(c) ==
    LET i == CHOOSE j \in 1..Len(HexDigits) : HexDigits[j] = c
    IN  IF i <= 16 THEN i - 1 ELSE i - 7

Contains(s, c) == \E i \in 1..Len(s) : s[i] = c

\* str.find(c, start) with 1-based positions; 0 when c does not occur.
Find(s, c, start) ==
    IF \E i \in start..Len(s) : s[i] = c
    THEN CHOOSE i \in start..Len(s) : s[i] = c /\ \A j \in start..(i - 1) : s[j] # c
    ELSE 0

\* s[i:] and s[:i] of Python, with 1-based first position i.
From(s, i) == SubSeq(s, i, Len(s))

Upto(s, i) == SubSeq(s, 1, i)

\* str.split(c): the pieces between the occurrences of c.
RECURSIVE Split(_, _)
Split(s, c) ==
    LET i == Find(s, c, 1)
    IN  IF i = 0 THEN <<s>> ELSE <<Upto(s, i - 1)>> \o Split(From(s, i + 1), c)

\* str.split(c, 1): at most one cut.
Split1(s, c) ==
    LET i == Find(s, c, 1)
    IN  IF i = 0 THEN <<s>> ELSE <<Upto(s, i - 1), From(s, i + 1)>>

\* str.replace(a, b) for single characters.
Replace(s, a, b) == [i \in 1..Len(s) |-> IF s[i] = a THEN b ELSE s[i]]

\* s without the characters of chars: str.replace(b, "") for each of them
Remove(s, chars) == LET Kept(c) == c \notin chars IN SelectSeq(s, Kept)

\* str.lstrip(chars): s without the characters of chars it begins with
LStrip(s, chars) ==
    IF \A i \in 1..Len(s) : s[i] \in chars THEN <<>>
    ELSE From(s, CHOOSE i \in 1..Len(s) :
                    s[i] \notin chars /\ \A j \in 1..(i - 1) : s[j] \in chars)

(***************************************************************************)
(* urllib.parse: urlparse(url).query, called at line 10                    *)
(***************************************************************************)
\* _splitnetloc(url, 2): the text between "//" and the first of "/?#".
NetlocEnd(url) ==
    LET cand == {Find(url, c, 3) : c \in {"/", "?", "#"}} \ {0}
    IN  IF cand = {} THEN Len(url) + 1
        ELSE CHOOSE d \in cand : \A e \in cand : d <= e

\* int(octet_str, 10) of at most three ASCII digits
RECURSIVE OctetValue(_)
OctetValue(t) ==
    IF t = <<>> THEN 0 ELSE 10 * OctetValue(Upto(t, Len(t) - 1)) + DigitVal(t[Len(t)])

\* ipaddress.IPv4Address._parse_octet returns
IsOctet(t) ==
    /\ t # <<>>
    /\ \A i \in 1..Len(t) : IsDigit(t[i])
    /\ Len(t) <= 3
    /\ (t = <<"0">> \/ t[1] # "0")
    /\ OctetValue(t) <= 255

\* ipaddress.IPv4Address(t) returns
IsIPv4(t) ==
    /\ t # <<>>
    /\ Len(Split(t, ".")) = 4
    /\ \A i \in 1..4 : IsOctet(Split(t, ".")[i])

\* ipaddress.IPv6Address._parse_hextet returns
IsHextet(t) ==
    /\ \A i \in 1..Len(t) : IsHex(t[i])
    /\ Len(t) <= 4
    /\ t # <<>>

\* ipaddress.IPv6Address._ip_int_from_string returns, for the parts between
\* the colons (an IPv4 suffix already replaced by its two hextets)
IPv6Parts(parts) ==
    LET n == Len(parts)
        skips == {i \in 2..(n - 1) : parts[i] = <<>>}
        skip == CHOOSE i \in skips : TRUE
        parts_hi == (skip - 1) - (IF parts[1] = <<>> THEN 1 ELSE 0)
        parts_lo == (n - skip) - (IF parts[n] = <<>> THEN 1 ELSE 0)
    IN  /\ n <= 9
        /\ Cardinality(skips) <= 1
        /\ IF skips # {}
           THEN /\ parts[1] = <<>> => parts_hi = 0
                /\ parts[n] = <<>> => parts_lo = 0
                /\ 8 - (parts_hi + parts_lo) >= 1
                /\ \A i \in 1..parts_hi : IsHextet(parts[i])
                /\ \A i \in (n - parts_lo + 1)..n : IsHextet(parts[i])
           ELSE /\ n = 8
                /\ \A i \in 1..n : IsHextet(parts[i])

\* ipaddress.IPv6Address(t) returns: _split_scope_id, then
\* _ip_int_from_string.  The value of the address is not kept: the two
\* hextets of an IPv4 suffix are written "0".
IsIPv6(t) ==
    LET addr == Split1(t, "%")[1]
        parts == Split(addr, ":")
        last == parts[Len(parts)]
    IN  /\ Contains(t, "%") => (Split1(t, "%")[2] # <<>> /\ ~Contains(Split1(t, "%")[2], "%"))
        /\ addr # <<>>
        /\ Len(parts) >= 3
        /\ IF Contains(last, ".")
           THEN IsIPv4(last) /\ IPv6Parts(Upto(parts, Len(parts) - 1) \o <<<<"0">>, <<"0">>>>)
           ELSE IPv6Parts(parts)

\* re.match(r"\Av[a-fA-F0-9]+\..+\Z", host): "." matches any character but
\* the line feed
IsIPvFuture(host) ==
    LET dot == Find(host, ".", 1)
    IN  /\ host # <<>> /\ host[1] = "v"
        /\ dot >= 3
        /\ \A i \in 2..(dot - 1) : IsHex(host[i])
        /\ dot < Len(host)
        /\ \A i \in (dot + 1)..Len(host) : host[i] # CharOf(10)

\* _check_bracketed_host: the ValueError it raises, "" when it returns.  The
\* message of ipaddress.ip_address is kept without the host it quotes.
bracketed_host_error(host) ==
    IF host # <<>> /\ host[1] = "v"
    THEN (IF IsIPvFuture(host) THEN "" ELSE "ValueError: IPvFuture address is invalid")
    ELSE IF IsIPv4(host) THEN "ValueError: An IPv4 address cannot be in brackets"
    ELSE IF IsIPv6(host) THEN ""
    ELSE "ValueError: does not appear to be an IPv4 or IPv6 address"

\* _check_bracketed_host returns
check_bracketed_host(host) == bracketed_host_error(host) = ""

\* _checknetloc returns: no character of the netloc becomes one of "/?#@:"
\* under NFKC normalization
checknetloc(netloc) == \A i \in 1..Len(netloc) : netloc[i] \notin NFKC_UNSAFE

\* urlsplit: [ok |-> FALSE] when it raises ValueError, else the query
\* component.  The message of _checknetloc is kept without the netloc it
\* quotes.
urlsplit(url0) ==
    LET url1 == Remove(LStrip(url0, WHATWG_C0_CONTROL_OR_SPACE), UNSAFE_URL_BYTES_TO_REMOVE)
        i == Find(url1, ":", 1)
        hasScheme == /\ i > 1
                     /\ IsAlpha(url1[1])
                     /\ \A k \in 1..(i - 1) : IsSchemeChar(url1[k])
        url2 == IF hasScheme THEN From(url1, i + 1) ELSE url1
        hasNetloc == Len(url2) >= 2 /\ url2[1] = "/" /\ url2[2] = "/"
        delim == NetlocEnd(url2)
        netloc == IF hasNetloc THEN SubSeq(url2, 3, delim - 1) ELSE <<>>
        url3 == IF hasNetloc THEN From(url2, delim) ELSE url2
        open == Contains(netloc, "[")
        close == Contains(netloc, "]")
        bracketed == Split1(Split1(netloc, "[")[IF open THEN 2 ELSE 1], "]")[1]
        url4 == IF Contains(url3, "#") THEN Split1(url3, "#")[1] ELSE url3
        query == IF Contains(url4, "?") THEN Split1(url4, "?")[2] ELSE <<>>
    IN  IF (open /\ ~close) \/ (close /\ ~open)
        THEN [ok |-> FALSE, error |-> "ValueError: Invalid IPv6 URL"]
        ELSE IF open /\ close /\ ~check_bracketed_host(bracketed)
        THEN [ok |-> FALSE, error |-> bracketed_host_error(bracketed)]
        ELSE IF ~checknetloc(netloc)
        THEN [ok |-> FALSE,
              error |-> "ValueError: netloc contains invalid characters under NFKC normalization"]
        ELSE [ok |-> TRUE, query |-> query]

(***************************************************************************)
(* urllib.parse: parse_qs(query), called at line 11                        *)
(***************************************************************************)
\* The byte a percent escape at position i of s stands for, -1 when there is
\* no escape there (unquote_to_bytes: "%" and two hexadecimal digits).
EscapeAt(s, i) ==
    IF i >= 1 /\ i + 2 <= Len(s) /\ s[i] = "%" /\ IsHex(s[i + 1]) /\ IsHex(s[i + 2])
    THEN 16 * HexVal(s[i + 1]) + HexVal(s[i + 2])
    ELSE -1

\* UTF-8: how many bytes follow the first byte b of a character, 0 when b
\* starts none
Utf8Following(b) ==
    IF b >= 194 /\ b <= 223 THEN 1
    ELSE IF b >= 224 /\ b <= 239 THEN 2
    ELSE IF b >= 240 /\ b <= 244 THEN 3
    ELSE 0

\* the bytes that may come second after the first byte b
Utf8Second(b) ==
    IF b = 224 THEN 160..191
    ELSE IF b = 237 THEN 128..159
    ELSE IF b = 240 THEN 144..191
    ELSE IF b = 244 THEN 128..143
    ELSE 128..191

\* How many of the escapes after the one at i continue the character its
\* byte b starts, k of them being counted already.
RECURSIVE Utf8Continued(_, _, _, _)
Utf8Continued(s, i, b, k) ==
    IF k = Utf8Following(b) THEN k
    ELSE IF EscapeAt(s, i + 3 * (k + 1)) \in (IF k = 0 THEN Utf8Second(b) ELSE 128..191)
    THEN Utf8Continued(s, i, b, k + 1)
    ELSE k

\* the bits of the k bytes after the first
RECURSIVE Utf8Bits(_, _, _)
Utf8Bits(s, i, k) ==
    IF k = 0 THEN 0 ELSE 64 * Utf8Bits(s, i, k - 1) + (EscapeAt(s, i + 3 * k) - 128)

\* The character decoded from the escape at i, whose byte b starts a
\* character of 1 + n bytes and is followed by k of them: with
\* errors='replace', one replacement character stands for a byte that starts
\* no character and for a character that is cut short.
Utf8Char(s, i, b, n, k) ==
    IF b < 128 THEN CharOf(b)
    ELSE IF n = 0 \/ k < n THEN ReplacementChar
    ELSE IF n = 1 THEN CharOf((b - 192) * 64 + Utf8Bits(s, i, 1))
    ELSE IF n = 2 THEN CharOf((b - 224) * 4096 + Utf8Bits(s, i, 2))
    ELSE CharOf((b - 240) * 262144 + Utf8Bits(s, i, 3))

\* The escape at i continues a character that one of the three escapes
\* before it starts.
Utf8Continues(s, i) ==
    \E k \in 1..3 :
        /\ Utf8Following(EscapeAt(s, i - 3 * k)) >= k
        /\ Utf8Continued(s, i - 3 * k, EscapeAt(s, i - 3 * k), 0) >= k

\* no character
NoChar == ""

\* What position i of s gives to unquote(s): the character of an escape that
\* starts there, nothing for the rest of the escape and for an escape that
\* continues a character, the character itself outside of an escape.
unquote_at(s, i) ==
    IF EscapeAt(s, i) >= 0
    THEN (IF Utf8Continues(s, i) THEN NoChar
          ELSE Utf8Char(s, i, EscapeAt(s, i), Utf8Following(EscapeAt(s, i)),
                        Utf8Continued(s, i, EscapeAt(s, i), 0)))
    ELSE IF EscapeAt(s, i - 1) >= 0 \/ EscapeAt(s, i - 2) >= 0 THEN NoChar
    ELSE s[i]

\* unquote: text without "%" is returned as it is; else each stretch of
\* ASCII text has its escapes replaced by their bytes (unquote_to_bytes) and
\* is decoded as UTF-8 with errors='replace'.
unquote(s) ==
    IF ~Contains(s, "%") THEN s
    ELSE LET IsChar(c) == c # NoChar
         IN  SelectSeq([i \in 1..Len(s) |-> unquote_at(s, i)], IsChar)

\* parse_qsl with keep_blank_values=False and strict_parsing=False: the
\* (name, value) pairs in order; a field without "=" or with an empty value
\* is skipped.
RECURSIVE parse_qsl_fields(_)
parse_qsl_fields(fields) ==
    IF fields = <<>> THEN <<>>
    ELSE LET nv == Split1(fields[1], "=")
             rest == parse_qsl_fields(Tail(fields))
         IN  IF fields[1] = <<>> \/ Len(nv) # 2 \/ Len(nv[2]) = 0
             THEN rest
             ELSE <<[name |-> unquote(Replace(nv[1], "+", " ")),
                     value |-> unquote(Replace(nv[2], "+", " "))]>> \o rest

parse_qsl(qs) == IF qs = <<>> THEN <<>> ELSE parse_qsl_fields(Split(qs, "&"))

\* parse_qs: the dict name -> list of values, the values in query order.
ValuesOf(pairs, name) ==
    LET F[i \in 0..Len(pairs)] ==
            IF i = 0 THEN <<>>
            ELSE IF pairs[i].name = name THEN Append(F[i - 1], pairs[i].value)
            ELSE F[i - 1]
    IN  F[Len(pairs)]

dict_of(pairs) ==
    [tag |-> "dict",
     items |-> [name \in {pairs[i].name : i \in 1..Len(pairs)} |-> ValuesOf(pairs, name)]]

parse_qs(qs) == dict_of(parse_qsl(qs))

(***************************************************************************)
(* datetime.strptime(amz_date, "%Y%m%dT%H%M%SZ"), called at line 22        *)
(***************************************************************************)
\* The items of the format, in order.  _strptime turns the format into the
\* regular expression
\*   (\d\d\d\d)(1[0-2]|0[1-9]|[1-9])(3[0-1]|[1-2]\d|0[1-9]|[1-9]| [1-9])T
\*   (2[0-3]|[0-1]\d|\d)([0-5]\d|\d)(6[0-1]|[0-5]\d|\d)Z
\* compiled with IGNORECASE and applied with re.match.  In it \d is any
\* decimal digit of Unicode, a class such as [0-5] holds ASCII digits only.
FormatItems == <<"Y", "m", "d", "T", "H", "M", "S", "Z">>

At(s, i) == IF i >= 1 /\ i <= Len(s) THEN s[i] ELSE NoChar

In(c, lo, hi) == IsDigit(c) /\ DigitVal(c) >= lo /\ DigitVal(c) <= hi

\* The widths item can take at position pos, in the order the regular
\* expression tries its alternatives.
Alternatives(item, s, pos) ==
    LET a == At(s, pos)
        b == At(s, pos + 1)
        wide ==
            CASE item = "Y" -> FALSE
              [] item = "m" -> (a = "1" /\ In(b, 0, 2)) \/ (a = "0" /\ In(b, 1, 9))
              [] item = "d" -> \/ (a = "3" /\ In(b, 0, 1))
                               \/ (In(a, 1, 2) /\ IsDecimal(b))
                               \/ (a = "0" /\ In(b, 1, 9))
              [] item = "H" -> (a = "2" /\ In(b, 0, 3)) \/ (In(a, 0, 1) /\ IsDecimal(b))
              [] item = "M" -> In(a, 0, 5) /\ IsDecimal(b)
              [] item = "S" -> (a = "6" /\ In(b, 0, 1)) \/ (In(a, 0, 5) /\ IsDecimal(b))
              [] OTHER -> FALSE
        narrow ==
            CASE item \in {"m", "d"} -> In(a, 1, 9)
              [] item \in {"H", "M", "S"} -> IsDecimal(a)
              [] OTHER -> FALSE
        padded == item = "d" /\ a = " " /\ In(b, 1, 9)
        year == item = "Y" /\ \A k \in 0..3 : IsDecimal(At(s, pos + k))
        literal == \/ (item = "T" /\ a \in {"T", "t"})
                   \/ (item = "Z" /\ a \in {"Z", "z"})
    IN  (IF year THEN <<4>> ELSE <<>>) \o (IF wide THEN <<2>> ELSE <<>>)
        \o (IF narrow THEN <<1>> ELSE <<>>) \o (IF padded THEN <<2>> ELSE <<>>)
        \o (IF literal THEN <<1>> ELSE <<>>)

\* re.match with backtracking: item k is matched at pos by the first of the
\* widths in alts after which the rest of the format matches.  The result is
\* the sequence of the widths chosen for the items k.., or <<>> for no match.
RECURSIVE MatchFrom(_, _, _, _)
MatchFrom(s, pos, k, alts) ==
    IF alts = <<>> THEN <<>>
    ELSE LET w == Head(alts)
             rest == IF k = Len(FormatItems) THEN <<>>
                     ELSE MatchFrom(s, pos + w, k + 1,
                                    Alternatives(FormatItems[k + 1], s, pos + w))
         IN  IF k = Len(FormatItems) THEN <<w>>
             ELSE IF rest # <<>> THEN <<w>> \o rest
             ELSE MatchFrom(s, pos, k, Tail(alts))

format_regex_match(s) == MatchFrom(s, 1, 1, Alternatives(FormatItems[1], s, 1))

\* int() of a matched group: decimal digits of Unicode, a leading space
\* skipped.
RECURSIVE GroupInt(_)
GroupInt(g) ==
    IF g = <<>> THEN 0
    ELSE IF g[Len(g)] = " " THEN 0
    ELSE 10 * GroupInt(Upto(g, Len(g) - 1)) + DecimalVal(g[Len(g)])

\* calendar rules of datetime.date
is_leap(year) == year % 4 = 0 /\ (year % 100 # 0 \/ year % 400 = 0)

DAYS_IN_MONTH == <<31, 28, 31, 30, 31, 30, 31, 31, 30, 31, 30, 31>>

days_in_month(year, month) ==
    IF month = 2 /\ is_leap(year) THEN 29 ELSE DAYS_IN_MONTH[month]

datetime(y, mo, d, h, mi, sec, us) ==
    [tag |-> "datetime", year |-> y, month |-> mo, day |-> d,
     hour |-> h, minute |-> mi, second |-> sec, microsecond |-> us]

\* The numbers of the groups Y, m, d, H, M, S of a match, given the widths
\* the items took.
RECURSIVE Groups(_, _, _, _)
Groups(s, widths, k, pos) ==
    IF k > Len(widths) THEN <<>>
    ELSE (IF FormatItems[k] \in {"T", "Z"} THEN <<>>
          ELSE <<GroupInt(SubSeq(s, pos, pos + widths[k] - 1))>>)
         \o Groups(s, widths, k + 1, pos + widths[k])

RECURSIVE SumOf(_)
SumOf(ws) == IF ws = <<>> THEN 0 ELSE Head(ws) + SumOf(Tail(ws))

\* date(year, month, day) and datetime(...) of the matched numbers g: the
\* ValueError of a year 0, of a day the month does not have, of a second
\* above 59.
datetime_of_groups(g) ==
    IF g[1] < 1
    THEN [ok |-> FALSE, reason |-> "year 0 is out of range"]
    ELSE IF g[3] > days_in_month(g[1], g[2])
    THEN [ok |-> FALSE, reason |-> "day is out of range for month"]
    ELSE IF g[6] > 59
    THEN [ok |-> FALSE, reason |-> "second must be in 0..59"]
    ELSE [ok |-> TRUE, value |-> datetime(g[1], g[2], g[3], g[4], g[5], g[6], 0)]

strptime_matched(s, widths) ==
    IF widths = <<>>
    THEN [ok |-> FALSE, reason |-> "time data does not match format"]
    ELSE IF SumOf(widths) # Len(s)
    THEN [ok |-> FALSE, reason |-> "unconverted data remains"]
    ELSE datetime_of_groups(Groups(s, widths, 1, 1))

\* strptime: [ok |-> TRUE, value |-> datetime] or [ok |-> FALSE, reason |-> ...],
\* the reason being the message of the ValueError raised.
strptime(s) == strptime_matched(s, format_regex_match(s))

(***************************************************************************)
(* int(expires), called at line 23                                         *)
(***************************************************************************)
\* A Python int has no width: it is kept as a sign and its decimal digits
\* (most significant first, no leading zero, zero being <<0>>).
PyInt(neg, digits) == [tag |-> "int", neg |-> neg, digits |-> digits]

\* sys.get_int_max_str_digits(): int() takes no more digits than this
DEFAULT_MAX_STR_DIGITS == 4300

DropZeros(ds) ==
    IF \A i \in 1..Len(ds) : ds[i] = 0 THEN <<0>>
    ELSE From(ds, CHOOSE i \in 1..Len(ds) : ds[i] # 0 /\ \A j \in 1..(i - 1) : ds[j] = 0)

\* _PyUnicode_TransformDecimalAndSpaceToASCII, for one character of a text
\* that is not all ASCII: a character below 127 is kept, white space becomes
\* a space, a decimal digit its ASCII digit, any other character "?"
ToAscii(c) ==
    IF IsAscii(c) /\ c # CharOf(127) THEN c
    ELSE IF c \in UnicodeSpaces THEN " "
    ELSE IF IsDecimal(c) THEN Digits[DecimalVal(c) + 1]
    ELSE "?"

\* _PyUnicode_TransformDecimalAndSpaceToASCII: ASCII text is returned as it
\* is; other text is transformed up to the first character, of code 127 or
\* more, that becomes "?"
TransformDecimalAndSpaceToASCII(text) ==
    LET bad == {i \in 1..Len(text) :
                   ~(IsAscii(text[i]) /\ text[i] # CharOf(127)) /\ ToAscii(text[i]) = "?"}
        n == IF bad = {} THEN Len(text) ELSE CHOOSE i \in bad : \A j \in bad : i <= j
    IN  IF \A i \in 1..Len(text) : IsAscii(text[i]) THEN text
        ELSE [i \in 1..n |-> ToAscii(text[i])]

\* How many characters at the start of t are digits or underscores: the
\* scan of PyLong_FromString.
ScanLength(t) ==
    LET Scanned(c) == IsDigit(c) \/ c = "_"
    IN  IF \A i \in 1..Len(t) : Scanned(t[i]) THEN Len(t)
        ELSE (CHOOSE i \in 1..Len(t) : ~Scanned(t[i]) /\ \A j \in 1..(i - 1) : Scanned(t[j])) - 1

\* The digits of a scan, leading zeros dropped.
DigitsOf(run) ==
    DropZeros([i \in 1..Len(SelectSeq(run, IsDigit)) |->
                  DigitVal(SelectSeq(run, IsDigit)[i])])

\* n in decimal digits
RECURSIVE DecimalText(_)
DecimalText(n) ==
    IF n < 10 THEN Digits[n + 1] ELSE DecimalText(n \div 10) \o Digits[(n % 10) + 1]

\* the message of the ValueError for a text of too many digits
ExceedsLimit(digits) ==
    "Exceeds the limit (" \o DecimalText(DEFAULT_MAX_STR_DIGITS)
    \o " digits) for integer string conversion: value has " \o DecimalText(digits)
    \o " digits; use sys.set_int_max_str_digits() to increase the limit"

\* PyLong_FromString after the sign, run being the scanned start of body: an
\* underscore first, last or after an underscore is refused, then a scan of
\* more digits than the limit, then a scan without a digit and any text
\* after the scan other than white space.
int_scanned(neg, body, run) ==
    IF \E i \in 1..Len(run) : run[i] = "_" /\ (i = 1 \/ i = Len(run) \/ run[i - 1] = "_")
    THEN [ok |-> FALSE, reason |-> "invalid literal for int() with base 10"]
    ELSE IF Len(SelectSeq(run, IsDigit)) > DEFAULT_MAX_STR_DIGITS
    THEN [ok |-> FALSE, reason |-> ExceedsLimit(Len(SelectSeq(run, IsDigit)))]
    ELSE IF run = <<>> \/ LStrip(From(body, Len(run) + 1), Py_ISSPACE) # <<>>
    THEN [ok |-> FALSE, reason |-> "invalid literal for int() with base 10"]
    ELSE [ok |-> TRUE, value |-> PyInt(neg /\ DigitsOf(run) # <<0>>, DigitsOf(run))]

int_signed(neg, body) == int_scanned(neg, body, Upto(body, ScanLength(body)))

\* PyLong_FromString after the leading white space: the sign
int_stripped(t) ==
    IF t # <<>> /\ t[1] \in {"+", "-"}
    THEN int_signed(t[1] = "-", Tail(t))
    ELSE int_signed(FALSE, t)

\* int(text): [ok |-> TRUE, value |-> PyInt] or [ok |-> FALSE, reason |-> ...],
\* the reason being the message of the ValueError raised, without the text
\* it quotes.
int(text) == int_stripped(LStrip(TransformDecimalAndSpaceToASCII(text), Py_ISSPACE))

(***************************************************************************)
(* dt + timedelta(seconds=expires), line 28                                *)
(***************************************************************************)
SecondsPerDay == 86400

\* timedelta: |days| may not exceed this
MaxDeltaDays == 999999999

\* datetime.max.toordinal(), the ordinal of 9999-12-31
MAXORDINAL == 3652059

\* Quotient and remainder of a digit sequence by 86400, by long division.  A
\* quotient above MaxDeltaDays is reported as MaxDeltaDays + 1, whatever it is.
RECURSIVE DivModDay(_)
DivModDay(ds) ==
    IF ds = <<>> THEN [q |-> 0, r |-> 0]
    ELSE LET p == DivModDay(Upto(ds, Len(ds) - 1))
             n == p.r * 10 + ds[Len(ds)]
             q == IF p.q >= (MaxDeltaDays + 1) \div 10
                  THEN MaxDeltaDays + 1
                  ELSE p.q * 10 + n \div SecondsPerDay
         IN  [q |-> IF q > MaxDeltaDays THEN MaxDeltaDays + 1 ELSE q,
              r |-> n % SecondsPerDay]

\* timedelta(seconds=n): days and seconds with 0 <= seconds < 86400, or
\* OverflowError when the days do not fit, as those of a number of fifteen
\* digits or more do not.
timedelta(n) ==
    LET p == DivModDay(n.digits)
        days == IF n.neg THEN -p.q - (IF p.r > 0 THEN 1 ELSE 0) ELSE p.q
        secs == IF n.neg THEN (SecondsPerDay - p.r) % SecondsPerDay ELSE p.r
    IN  IF Len(n.digits) >= 15 THEN [ok |-> FALSE, error |-> "OverflowError"]
        ELSE IF days > MaxDeltaDays \/ days < -MaxDeltaDays
        THEN [ok |-> FALSE, error |-> "OverflowError"]
        ELSE [ok |-> TRUE, days |-> days, seconds |-> secs]

days_before_year(year) ==
    LET y == year - 1
    IN  y * 365 + y \div 4 - y \div 100 + y \div 400

RECURSIVE days_before_month(_, _)
days_before_month(year, month) ==
    IF month = 1 THEN 0
    ELSE days_before_month(year, month - 1) + days_in_month(year, month - 1)

\* date.toordinal(): 0001-01-01 is day 1
ymd2ord(year, month, day) ==
    days_before_year(year) + days_before_month(year, month) + day

\* date.fromordinal(n): <<year, month, day>>
ord2ymd(ordinal) ==
    LET n0 == ordinal - 1
        n400 == n0 \div 146097
        r400 == n0 % 146097
        n100 == r400 \div 36524
        r100 == r400 % 36524
        n4 == r100 \div 1461
        r4 == r100 % 1461
        n1 == r4 \div 365
        n == r4 % 365
        year == n400 * 400 + 1 + n100 * 100 + n4 * 4 + n1
        month == CHOOSE m \in 1..12 :
                    /\ days_before_month(year, m) <= n
                    /\ n < days_before_month(year, m) + days_in_month(year, m)
    IN  IF n1 = 4 \/ n100 = 4 THEN <<year - 1, 12, 31>>
        ELSE <<year, month, n - days_before_month(year, month) + 1>>

\* datetime.__add__: [ok |-> TRUE, value |-> datetime], or OverflowError when
\* the duration or the resulting date is out of range.
datetime_add(d, n) ==
    LET td == timedelta(n)
        s0 == d.hour * 3600 + d.minute * 60 + d.second + td.seconds
        carry == s0 \div SecondsPerDay
        secs == s0 % SecondsPerDay
        days == ymd2ord(d.year, d.month, d.day) + td.days + carry
        ymd == ord2ymd(days)
    IN  IF ~td.ok THEN [ok |-> FALSE, error |-> "OverflowError"]
        ELSE IF days < 1 \/ days > MAXORDINAL
        THEN [ok |-> FALSE, error |-> "OverflowError"]
        ELSE [ok |-> TRUE,
              value |-> datetime(ymd[1], ymd[2], ymd[3], secs \div 3600,
                                 (secs % 3600) \div 60, secs % 60, d.microsecond)]

(***************************************************************************)
(* now < expiry_time (line 34) and str(datetime) (lines 31-33)             *)
(***************************************************************************)
Fields(d) == <<d.year, d.month, d.day, d.hour, d.minute, d.second, d.microsecond>>

\* datetime.__lt__: the fields compared in order, as tuples are
datetime_lt(a, b) ==
    \E i \in 1..7 :
        /\ Fields(a)[i] < Fields(b)[i]
        /\ \A j \in 1..(i - 1) : Fields(a)[j] = Fields(b)[j]

\* "%0*d": n in decimal, zero-padded to width characters
RECURSIVE Pad(_, _)
Pad(n, width) ==
    IF width = 0 THEN <<>> ELSE Pad(n \div 10, width - 1) \o <<Digits[(n % 10) + 1]>>

\* str(datetime): "YYYY-MM-DD HH:MM:SS", then ".ffffff" unless the
\* microseconds are 0
datetime_str(d) ==
    Pad(d.year, 4) \o <<"-">> \o Pad(d.month, 2) \o <<"-">> \o Pad(d.day, 2) \o <<" ">>
    \o Pad(d.hour, 2) \o <<":">> \o Pad(d.minute, 2) \o <<":">> \o Pad(d.second, 2)
    \o (IF d.microsecond = 0 THEN <<>> ELSE <<".">> \o Pad(d.microsecond, 6))

(***************************************************************************)
(* Python values and the lines the program writes                          *)
(***************************************************************************)
Unbound == [tag |-> "unbound"]

None == [tag |-> "None"]

Str(s) == [tag |-> "str", s |-> s]

\* "not v" of Python for the values the lookup yields
Falsy(v) == v.tag = "None" \/ (v.tag = "str" /\ v.s = <<>>)

XAmzDate == <<"X", "-", "A", "m", "z", "-", "D", "a", "t", "e">>

XAmzExpires == <<"X", "-", "A", "m", "z", "-", "E", "x", "p", "i", "r", "e", "s">>

\* params.get(key, [None]): the list of the values of key, or [None]
dict_get(d, key) ==
    IF key \in DOMAIN d.items
    THEN [i \in 1..Len(d.items[key]) |-> Str(d.items[key][i])]
    ELSE <<None>>

\* a wrong index: list[-1]
First_Last(list) == list[Len(list)]

\* list[0]
First(list) == list[1]

\* A line of output: a fixed text, a formatted value and a fixed ending.
Line(text, value, tail) == [text |-> text, value |-> value, tail |-> tail]

UsageLine == Line("Usage: python check_presigned_url_expiry.py <presigned_url>", <<>>, "")

MissingLine == Line("Could not find X-Amz-Date or X-Amz-Expires in the URL.", <<>>, "")

ParseErrorLine(reason) == Line("Error parsing date or expires: ", <<reason>>, "")

GeneratedLine(d) == Line("URL generated at: ", datetime_str(d), " UTC")

ExpiresLine(d) == Line("Expires at:      ", datetime_str(d), " UTC")

CurrentLine(d) == Line("Current time:    ", datetime_str(d), " UTC")

ValidLine == Line("The pre-signed URL is still valid.", <<>>, "")

ExpiredLine == Line("The pre-signed URL has expired.", <<>>, "")

\* What the interpreter writes to standard error for an exception nothing catches.
Traceback(error) == <<"Traceback (most recent call last):", error>>

(***************************************************************************)
(* Inputs: the argument lists and the clock readings of the runs modelled  *)
(***************************************************************************)
\* at most this many command-line arguments after the program name
MaxArgs == 2

\* at most this many fields of one name in a query string
MaxOccur == 2

\* sys.argv[0]
Prog ==
    <<"c", "h", "e", "c", "k", "_", "p", "r", "e", "s", "i", "g", "n", "e", "d", "_", "u", "r",
      "l", "_", "e", "x", "p", "i", "r", "y", ".", "p", "y">>

\* scheme, host and path of the URLs
Base == <<"h", "t", "t", "p", "s", ":", "/", "/", "h", "/", "o">>

\* a date in the documented form
DateGood == <<"2", "0", "2", "0", "0", "1", "0", "1", "T", "0", "0", "0", "0", "0", "0", "Z">>

\* lower-case literals
DateLower == <<"2", "0", "2", "0", "0", "1", "0", "1", "t", "0", "0", "0", "0", "0", "0", "z">>

\* a one-digit field: 2020-11-05 to strptime
DateShort == <<"2", "0", "2", "0", "1", "1", "5", "T", "0", "0", "0", "0", "0", "0", "Z">>

\* 30 February
DateBadDay == <<"2", "0", "2", "0", "0", "2", "3", "0", "T", "0", "0", "0", "0", "0", "0", "Z">>

\* no date at all
DateBad == <<"b", "a", "d", "-", "d", "a", "t", "e">>

\* the last second datetime can hold
DateMax == <<"9", "9", "9", "9", "1", "2", "3", "1", "T", "2", "3", "5", "9", "5", "9", "Z">>

\* the first second datetime can hold
DateMin == <<"0", "0", "0", "1", "0", "1", "0", "1", "T", "0", "0", "0", "0", "0", "0", "Z">>

\* one hour
ExpHour == <<"3", "6", "0", "0">>

\* five seconds before the issue time
ExpNegative == <<"-", "5">>

\* no validity at all
ExpZero == <<"0">>

\* parse_qs turns the + into a space; int() strips it
ExpPlus == <<"+", "5">>

\* not an integer
ExpBad == <<"5", ".", "0">>

\* more seconds than a timedelta can hold
ExpHuge ==
    <<"9", "9", "9", "9", "9", "9", "9", "9", "9", "9", "9", "9", "9", "9", "9", "9", "9", "9",
      "9", "9">>

\* an empty value
Blank == <<>>

\* one hour and an escaped line feed, which int() skips
ExpLineFeed == ExpHour \o <<"%", "0", "A">>

\* the UTF-8 bytes of U+0663, the Arabic-Indic digit three, escaped
ExpArabic == <<"%", "D", "9", "%", "A", "3">>

\* one digit more than int() takes
ExpTooLong == [i \in 1..(DEFAULT_MAX_STR_DIGITS + 1) |-> "9"]

\* DateGood with U+0660, the Arabic-Indic digit zero, escaped, in the hour
DateArabic ==
    <<"2", "0", "2", "0", "0", "1", "0", "1", "T", "0", "%", "D", "9", "%", "A", "0",
      "0", "0", "0", "0", "Z">>

DateValues == {DateGood, DateLower, DateShort, DateBadDay, DateBad, DateMax, DateMin, Blank}

ExpiresValues == {ExpHour, ExpNegative, ExpZero, ExpPlus, ExpBad, ExpHuge, Blank}

\* the values a name takes when it occurs more than once
RepeatedDates == {DateGood, DateBad, Blank}

RepeatedExpires == {ExpHour, ExpBad, Blank}

\* the lists of values of a name that occurs at most once
Singles(values) == {<<>>} \cup {<<v>> : v \in values}

\* the lists of values of a name that occurs several times
Repeated(values) == UNION {[1..n -> values] : n \in 2..MaxOccur}

\* the lists of values the other name has beside a name that occurs several
\* times
FewDates == {<<>>, <<DateGood>>, <<DateBad>>, <<Blank, DateGood>>}

FewExpires == {<<>>, <<ExpHour>>, <<ExpBad>>, <<Blank, ExpHour>>}

Field(name, value) == name \o <<"=">> \o value

RECURSIVE Join(_, _)
Join(fields, sep) ==
    IF fields = <<>> THEN <<>>
    ELSE IF Len(fields) = 1 THEN fields[1]
    ELSE fields[1] \o <<sep>> \o Join(Tail(fields), sep)

FieldsOf(name, values) == [i \in 1..Len(values) |-> Field(name, values[i])]

\* a query string: the X-Amz-Date fields, then the X-Amz-Expires fields
QueryOf(ds, es) == Join(FieldsOf(XAmzDate, ds) \o FieldsOf(XAmzExpires, es), "&")

Queries ==
    {QueryOf(ds, es) : ds \in Singles(DateValues), es \in Singles(ExpiresValues)}
    \cup {QueryOf(ds, es) : ds \in Repeated(RepeatedDates), es \in FewExpires}
    \cup {QueryOf(ds, es) : ds \in FewDates, es \in Repeated(RepeatedExpires)}

GoodQuery == Join(<<Field(XAmzDate, DateGood), Field(XAmzExpires, ExpHour)>>, "&")

\* query strings of other shapes: the fields in the other order, among other
\* fields, a name in lower case, a name with a percent escape (%2D is "-"), a
\* name without "=", ";" for "&", and values with escaped bytes or too many
\* digits
OtherQueries ==
    {Join(<<Field(XAmzExpires, ExpHour), Field(XAmzDate, DateGood)>>, "&"),
     Join(<<Field(<<"a">>, <<"b">>), Field(XAmzDate, DateGood), <<>>,
            Field(XAmzExpires, ExpHour)>>, "&"),
     Join(<<Field(<<"x", "-", "a", "m", "z", "-", "d", "a", "t", "e">>, DateGood),
            Field(XAmzExpires, ExpHour)>>, "&"),
     Join(<<Field(<<"X", "%", "2", "D">> \o From(XAmzDate, 3), DateGood),
            Field(XAmzExpires, ExpHour)>>, "&"),
     Join(<<XAmzDate, Field(XAmzDate, DateGood), Field(XAmzExpires, ExpHour)>>, "&"),
     Join(<<Field(XAmzDate, DateGood), Field(XAmzExpires, ExpHour)>>, ";"),
     Join(<<Field(XAmzDate, DateGood), Field(XAmzExpires, ExpLineFeed)>>, "&"),
     Join(<<Field(XAmzDate, DateGood), Field(XAmzExpires, ExpArabic)>>, "&"),
     Join(<<Field(XAmzDate, DateGood), Field(XAmzExpires, ExpTooLong)>>, "&"),
     Join(<<Field(XAmzDate, DateArabic), Field(XAmzExpires, ExpHour)>>, "&")}

\* URLs of other shapes around the good query: no "?", nothing before the "?",
\* a leading space, a leading tab, the query behind a fragment, an unclosed
\* "[" in the host (with the good query, with a query without X-Amz-Date
\* and with a query of a malformed X-Amz-Date alone), IPv6 hosts, an IPv4 host in brackets, and U+FF0F, the
\* fullwidth solidus, in the host
OtherUrls ==
    {GoodQuery,
     <<"?">> \o GoodQuery,
     <<" ">> \o Base \o <<"?">> \o GoodQuery,
     Base \o <<"#", "f", "?">> \o GoodQuery,
     <<"h", "t", "t", "p", ":", "/", "/", "[", "h", "/", "o", "?">> \o GoodQuery,
     <<"h", "t", "t", "p", ":", "/", "/", "[", "h", "/", "o", "?">>
        \o Field(XAmzExpires, ExpHour),
     <<"h", "t", "t", "p", ":", "/", "/", "[", "h", "/", "o", "?">>
        \o Field(XAmzDate, DateBad),
     <<"h", "t", "t", "p", ":", "/", "/", "[", ":", ":", "1", "]", "/", "o", "?">>
        \o GoodQuery,
     <<CharOf(9)>> \o Base \o <<"?">> \o GoodQuery,
     <<"h", "t", "t", "p", ":", "/", "/", "[", "2", "0", "0", "1", ":", "d", "b", "8", ":",
       ":", "1", "]", "/", "o", "?">> \o GoodQuery,
     <<"h", "t", "t", "p", ":", "/", "/", "[", "1", ".", "2", ".", "3", ".", "4", "]", "/",
       "o", "?">> \o GoodQuery,
     <<"h", "t", "t", "p", "s", ":", "/", "/", "h", CharOf(65295), "o", "?">> \o GoodQuery}

Urls == {Base \o <<"?">> \o q : q \in Queries \cup OtherQueries} \cup OtherUrls

\* sys.argv: the program name, then no argument, one URL, or several arguments
ArgvSet ==
    {<<Prog>>} \cup {<<Prog, u>> : u \in Urls}
    \cup {<<Prog>> \o [i \in 1..n |-> Base \o <<"?">> \o GoodQuery] : n \in 2..MaxArgs}

\* clock readings around the expiry instants of DateGood with ExpNegative,
\* ExpZero and ExpHour, in increasing order
ClockTimes ==
    <<datetime(2019, 12, 31, 23, 59, 54, 999999),
      datetime(2019, 12, 31, 23, 59, 55, 0),
      datetime(2020, 1, 1, 0, 0, 0, 0),
      datetime(2020, 1, 1, 0, 59, 59, 999999),
      datetime(2020, 1, 1, 1, 0, 0, 0),
      datetime(2020, 1, 1, 1, 0, 0, 1)>>

(***************************************************************************)
(* The program                                                             *)
(***************************************************************************)
VARIABLES
    argv,         \* sys.argv
    clock,        \* the system clock, UTC
    pc,           \* the statement to run next
    url, parsed, params, amz_date, expires, dt, expiry_time, now,
    stdout,       \* the lines written to standard output
    stderr,       \* the lines written to standard error
    status,       \* <<>> while running, then <<the exit status>>
    clock_reads,  \* how often this run has read the clock
    prev          \* the verdict and the clock reading of the run before

locals == <<url, parsed, params, amz_date, expires, dt, expiry_time, now>>

vars == <<argv, clock, pc, url, parsed, params, amz_date, expires, dt, expiry_time, now,
          stdout, stderr, status, clock_reads, prev>>

Init ==
    /\ argv \in ArgvSet
    /\ clock \in {ClockTimes[i] : i \in 1..Len(ClockTimes)}
    /\ pc = "argc"
    /\ url = Unbound /\ parsed = Unbound /\ params = Unbound
    /\ amz_date = Unbound /\ expires = Unbound
    /\ dt = Unbound /\ expiry_time = Unbound /\ now = Unbound
    /\ stdout = <<>> /\ stderr = <<>> /\ status = <<>>
    /\ clock_reads = 0
    /\ prev = [verdict |-> "none", now |-> Unbound]

\* sys.exit(code) after print(line)
PrintAndExit(line, code) ==
    /\ stdout' = Append(stdout, line)
    /\ status' = <<code>>
    /\ pc' = "exited"
    /\ UNCHANGED stderr

\* an exception that nothing catches: the traceback, then exit status 1
Uncaught(error) ==
    /\ stderr' = stderr \o Traceback(error)
    /\ status' = <<1>>
    /\ pc' = "exited"
    /\ UNCHANGED stdout

Goto(label) == pc' = label /\ UNCHANGED <<stdout, stderr, status>>

\* a wrong test of the argument count: only a missing argument is refused
WrongArgCount_NoneOnly(args) == Len(args) < 2

\* lines 5-7
WrongArgCount(args) == Len(args) # 2

CheckArgs ==
    /\ pc = "argc"
    /\ IF WrongArgCount(argv) THEN PrintAndExit(UsageLine, 1) ELSE Goto("urlparse")
    /\ UNCHANGED <<argv, clock, locals, clock_reads, prev>>

\* lines 9-11
ParseUrl ==
    /\ pc = "urlparse"
    /\ url' = Str(argv[2])
    /\ LET r == urlsplit(argv[2])
       IN  IF r.ok
           THEN /\ parsed' = Str(r.query)
                /\ params' = parse_qs(r.query)
                /\ Goto("lookup")
           ELSE /\ Uncaught(r.error)
                /\ UNCHANGED <<parsed, params>>
    /\ UNCHANGED <<argv, clock, amz_date, expires, dt, expiry_time, now, clock_reads, prev>>

\* lines 13-14
Lookup ==
    /\ pc = "lookup"
    /\ amz_date' = First(dict_get(params, XAmzDate))
    /\ expires' = First(dict_get(params, XAmzExpires))
    /\ Goto("present")
    /\ UNCHANGED <<argv, clock, url, parsed, params, dt, expiry_time, now, clock_reads, prev>>

\* lines 16-18
Missing(date, exp) == Falsy(date) \/ Falsy(exp)

CheckPresent ==
    /\ pc = "present"
    /\ IF Missing(amz_date, expires) THEN PrintAndExit(MissingLine, 1) ELSE Goto("try")
    /\ UNCHANGED <<argv, clock, locals, clock_reads, prev>>

\* strptime and int of a looked-up value: a value that is no text is a
\* TypeError, which "except Exception" catches like a ValueError
ParseDate(v) ==
    IF v.tag = "str" THEN strptime(v.s)
    ELSE [ok |-> FALSE, reason |-> "strptime() argument 1 must be str, not None"]

ParseInt(v) ==
    IF v.tag = "str" THEN int(v.s)
    ELSE [ok |-> FALSE,
          reason |-> "int() argument must be a string, a bytes-like object or a real number, "
                     \o "not 'NoneType'"]

\* lines 21-26, d and e being what strptime and int give
TryBlock(d, e) ==
    IF ~d.ok
    THEN /\ PrintAndExit(ParseErrorLine(d.reason), 1)
         /\ UNCHANGED <<dt, expires>>
    ELSE IF ~e.ok
    THEN /\ PrintAndExit(ParseErrorLine(e.reason), 1)
         /\ dt' = d.value
         /\ UNCHANGED expires
    ELSE /\ dt' = d.value
         /\ expires' = e.value
         /\ Goto("add")

ParseValues ==
    /\ pc = "try"
    /\ TryBlock(ParseDate(amz_date), ParseInt(expires))
    /\ UNCHANGED <<argv, clock, url, parsed, params, amz_date, expiry_time, now,
                   clock_reads, prev>>

\* line 28
ComputeExpiry ==
    /\ pc = "add"
    /\ LET r == datetime_add(dt, expires)
       IN  IF r.ok
           THEN expiry_time' = r.value /\ Goto("utcnow")
           ELSE Uncaught(r.error) /\ UNCHANGED expiry_time
    /\ UNCHANGED <<argv, clock, url, parsed, params, amz_date, expires, dt, now,
                   clock_reads, prev>>

\* line 29
ReadClock ==
    /\ pc = "utcnow"
    /\ now' = clock
    /\ clock_reads' = clock_reads + 1
    /\ Goto("print_generated")
    /\ UNCHANGED <<argv, clock, url, parsed, params, amz_date, expires, dt, expiry_time, prev>>

WriteLine(line, next) ==
    /\ stdout' = Append(stdout, line)
    /\ pc' = next
    /\ UNCHANGED <<stderr, status>>

\* line 31
PrintGenerated ==
    /\ pc = "print_generated"
    /\ WriteLine(GeneratedLine(dt), "print_expires")
    /\ UNCHANGED <<argv, clock, locals, clock_reads, prev>>

\* line 32
PrintExpires ==
    /\ pc = "print_expires"
    /\ WriteLine(ExpiresLine(expiry_time), "print_current")
    /\ UNCHANGED <<argv, clock, locals, clock_reads, prev>>

\* line 33
PrintCurrent ==
    /\ pc = "print_current"
    /\ WriteLine(CurrentLine(now), "verdict")
    /\ UNCHANGED <<argv, clock, locals, clock_reads, prev>>

\* a wrong condition: the operands of < exchanged
StillValid_Swapped(t, expiry) == datetime_lt(expiry, t)

\* line 34: the condition of the if
StillValid(t, expiry) == datetime_lt(t, expiry)

\* a wrong comparison: the clock read a second time
Compared_Fresh == clock

\* the instant line 34 compares with the expiry
Compared == now

\* lines 34-37, then the end of the script: exit status 0
PrintVerdict ==
    /\ pc = "verdict"
    /\ stdout' = Append(stdout, IF StillValid(Compared, expiry_time)
                                THEN ValidLine ELSE ExpiredLine)
    /\ status' = <<0>>
    /\ pc' = "exited"
    /\ UNCHANGED <<argv, clock, locals, stderr, clock_reads, prev>>

(***************************************************************************)
(* The environment: time passes, and the program is run again              *)
(***************************************************************************)
Tick ==
    /\ \E i \in 1..Len(ClockTimes) :
          /\ datetime_lt(clock, ClockTimes[i])
          /\ clock' = ClockTimes[i]
    /\ UNCHANGED <<argv, pc, locals, stdout, stderr, status, clock_reads, prev>>

\* the verdict a finished run printed
Verdict(lines) ==
    IF lines # <<>> /\ lines[Len(lines)] = ValidLine THEN "valid"
    ELSE IF lines # <<>> /\ lines[Len(lines)] = ExpiredLine THEN "expired"
    ELSE "error"

\* the same command line is run once more
Rerun ==
    /\ pc = "exited"
    /\ prev' = [verdict |-> Verdict(stdout), now |-> now]
    /\ pc' = "argc"
    /\ url' = Unbound /\ parsed' = Unbound /\ params' = Unbound
    /\ amz_date' = Unbound /\ expires' = Unbound
    /\ dt' = Unbound /\ expiry_time' = Unbound /\ now' = Unbound
    /\ stdout' = <<>> /\ stderr' = <<>> /\ status' = <<>>
    /\ clock_reads' = 0
    /\ UNCHANGED <<argv, clock>>

Next ==
    \/ CheckArgs
    \/ ParseUrl
    \/ Lookup
    \/ CheckPresent
    \/ ParseValues
    \/ ComputeExpiry
    \/ ReadClock
    \/ PrintGenerated
    \/ PrintExpires
    \/ PrintCurrent
    \/ PrintVerdict
    \/ Tick
    \/ Rerun

Spec == Init /\ [][Next]_vars

(***************************************************************************)
(* A whole run as a function of the argument list and of the instant t the *)
(* clock shows when line 29 reads it: what the run writes and its status.  *)
(***************************************************************************)
Exited(out, err, code) == [stdout |-> out, stderr |-> err, status |-> <<code>>]

\* lines 28-37
OutcomeOfAdd(d, x, t) ==
    IF ~x.ok THEN Exited(<<>>, Traceback(x.error), 1)
    ELSE Exited(<<GeneratedLine(d), ExpiresLine(x.value), CurrentLine(t),
                  IF StillValid(t, x.value) THEN ValidLine ELSE ExpiredLine>>, <<>>, 0)

\* lines 21-37
OutcomeOfTry(d, e, t) ==
    IF ~d.ok THEN Exited(<<ParseErrorLine(d.reason)>>, <<>>, 1)
    ELSE IF ~e.ok THEN Exited(<<ParseErrorLine(e.reason)>>, <<>>, 1)
    ELSE OutcomeOfAdd(d.value, datetime_add(d.value, e.value), t)

\* lines 16-37
OutcomeOfLookup(date, exp, t) ==
    IF Missing(date, exp) THEN Exited(<<MissingLine>>, <<>>, 1)
    ELSE OutcomeOfTry(ParseDate(date), ParseInt(exp), t)

\* lines 11-37
OutcomeOfQuery(d, t) ==
    OutcomeOfLookup(First(dict_get(d, XAmzDate)), First(dict_get(d, XAmzExpires)), t)

\* lines 10-37
OutcomeOfUrl(r, t) ==
    IF ~r.ok THEN Exited(<<>>, Traceback(r.error), 1)
    ELSE OutcomeOfQuery(parse_qs(r.query), t)

\* lines 5-37
Outcome(args, t) ==
    IF WrongArgCount(args) THEN Exited(<<UsageLine>>, <<>>, 1)
    ELSE OutcomeOfUrl(urlsplit(args[2]), t)

(***************************************************************************)
(* Vocabulary of the properties                                            *)
(***************************************************************************)
Finished == pc = "exited"

SingleArgument == Len(argv) = 2

IsParseError(line) == line.text = "Error parsing date or expires: "

IsDiagnostic(line) == line = UsageLine \/ line = MissingLine \/ IsParseError(line)

IsVerdict(line) == line = ValidLine \/ line = ExpiredLine

IsTimestamp(line) ==
    line.text \in {"URL generated at: ", "Expires at:      ", "Current time:    "}

Count(lines, P(_)) == Cardinality({i \in 1..Len(lines) : P(lines[i])})

\* what a run can be seen to have done
Observed == [stdout |-> stdout, stderr |-> stderr, status |-> status]

\* the instant the run read, or the clock when it read none
Sampled == IF now.tag = "datetime" THEN now ELSE clock

\* The state machine and the function Outcome describe the same runs.
RunIsOutcome == Finished => Observed = Outcome(argv, Sampled)

\* Whole seconds from instant a to instant b, rounded down; instants more
\* than 20000 days apart count as 2000000000 seconds apart.
Elapsed(a, b) ==
    LET days == ymd2ord(b.year, b.month, b.day) - ymd2ord(a.year, a.month, a.day)
        secs == (b.hour - a.hour) * 3600 + (b.minute - a.minute) * 60
                + (b.second - a.second) - (IF b.microsecond < a.microsecond THEN 1 ELSE 0)
    IN  IF days > 20000 THEN 2000000000
        ELSE IF days < -20000 THEN -2000000000
        ELSE days * 86400 + secs

\* the value of a Python int of at most nine digits
RECURSIVE DigitsValue(_)
DigitsValue(ds) ==
    IF ds = <<>> THEN 0 ELSE 10 * DigitsValue(Upto(ds, Len(ds) - 1)) + ds[Len(ds)]

IntValue(n) == IF n.neg THEN -DigitsValue(n.digits) ELSE DigitsValue(n.digits)

\* text a before text b in the order of the characters' positions in Ascii,
\* a proper prefix coming first
RECURSIVE TextLess(_, _)
TextLess(a, b) ==
    IF b = <<>> THEN FALSE
    ELSE IF a = <<>> THEN TRUE
    ELSE IF a[1] = b[1] THEN TextLess(Tail(a), Tail(b))
    ELSE (CHOOSE i \in 1..Len(Ascii) : Ascii[i] = a[1])
         < (CHOOSE i \in 1..Len(Ascii) : Ascii[i] = b[1])

(***************************************************************************)
(* Properties                                                              *)
(***************************************************************************)

\* C2: every run ends either with status 1 after one diagnostic (usage,
\* missing parameter or parse) on standard output, or with status 0 after a
\* verdict; nothing else is written and no failure escapes these two ends.
C2_TwoOutcomes ==
    Finished =>
        /\ stderr = <<>>
        /\ \/ status = <<1>> /\ Len(stdout) = 1 /\ IsDiagnostic(stdout[1])
           \/ status = <<0>> /\ stdout # <<>> /\ IsVerdict(stdout[Len(stdout)])

\* C5: with no argument or with two or more, the run prints the usage line
\* and exits with status 1, and it neither parses a URL nor reads the clock;
\* the URL is processed only when there is exactly one argument.
C5_UsageOnWrongArgumentCount ==
    /\ ~SingleArgument =>
          /\ pc \in {"argc", "exited"}
          /\ url = Unbound /\ parsed = Unbound /\ params = Unbound
          /\ now = Unbound /\ clock_reads = 0
          /\ Finished => stdout = <<UsageLine>> /\ status = <<1>> /\ stderr = <<>>
    /\ SingleArgument => UsageLine \notin {stdout[i] : i \in 1..Len(stdout)}

C5_Witness ==
    /\ Finished
    /\ Len(argv) = 3
    /\ stdout = <<UsageLine>>
    /\ status = <<1>>

\* C6: a successful run writes exactly four lines, in this order: the issue
\* time, the expiry (issue time plus the seconds of X-Amz-Expires), the
\* current time, one verdict.  The clock is read once, and the verdict is
\* "still valid" exactly when the time printed on the third line is before
\* the time printed on the second.
C6_FourLinesOneClockReading ==
    /\ clock_reads <= 1
    /\ status = <<>> =>
          \A i \in 1..Len(stdout) :
              stdout[i] = <<GeneratedLine(dt), ExpiresLine(expiry_time), CurrentLine(now)>>[i]
    /\ (Finished /\ status = <<0>>) =>
          /\ Len(stdout) = 4
          /\ stdout[1] = GeneratedLine(dt)
          /\ stdout[2] = ExpiresLine(expiry_time)
          /\ stdout[3] = CurrentLine(now)
          /\ IsVerdict(stdout[4])
          /\ clock_reads = 1
          /\ Len(expires.digits) <= 9 =>
                Elapsed(dt, expiry_time) = IntValue(expires) /\ expiry_time.microsecond = 0
          /\ stdout[4] = ValidLine <=> TextLess(stdout[3].value, stdout[2].value)

\* a successful run during which the clock passed the expiry after it was read
C6_Witness ==
    /\ Finished
    /\ status = <<0>>
    /\ stdout[4] = ValidLine
    /\ ~datetime_lt(clock, expiry_time)

\* C10: when the same command line is run again, the clock not having gone
\* back, a run that follows a run reporting "has expired" reports "has
\* expired" too, and two runs that read the same instant report the same.
C10_ExpiryIsMonotone ==
    (Finished /\ status = <<0>> /\ prev.verdict \in {"valid", "expired"}) =>
        /\ ~datetime_lt(now, prev.now)
        /\ prev.verdict = "expired" => Verdict(stdout) = "expired"
        /\ now = prev.now => Verdict(stdout) = prev.verdict

\* a URL found valid by one run and expired by the next
C10_Witness ==
    /\ Finished
    /\ prev.verdict = "valid"
    /\ Verdict(stdout) = "expired"

(***************************************************************************)
(* The query string of a URL as text: what follows the first "?" of the    *)
(* part before the first "#", cut at every "&" into fields name=value      *)
(***************************************************************************)
BeforeFragment(u) == IF Contains(u, "#") THEN Split1(u, "#")[1] ELSE u

QueryText(u) ==
    IF Contains(BeforeFragment(u), "?") THEN Split1(BeforeFragment(u), "?")[2] ELSE <<>>

Decoded(t) == unquote(Replace(t, "+", " "))

FieldName(f) == Decoded(Split1(f, "=")[1])

FieldValue(f) == IF Contains(f, "=") THEN Decoded(Split1(f, "=")[2]) ELSE <<>>

IsNamed(f, name) == f # <<>> /\ FieldName(f) = name

\* the values of the fields called name, in order
RECURSIVE ValuesNamed(_, _)
ValuesNamed(fields, name) ==
    IF fields = <<>> THEN <<>>
    ELSE (IF IsNamed(fields[1], name) THEN <<FieldValue(fields[1])>> ELSE <<>>)
         \o ValuesNamed(Tail(fields), name)

Carried(name) == ValuesNamed(Split(QueryText(argv[2]), "&"), name)

Lacks(name) == Carried(name) = <<>>

\* a single-argument run whose URL gave a query component at line 10
UrlWasParsed == SingleArgument /\ parsed.tag = "str"

Number(t, i, j) == GroupInt(SubSeq(t, i, j))

\* YYYYMMDD'T'HHMMSS'Z' naming an instant that exists
StrictDate(t) ==
    /\ Len(t) = 16
    /\ \A i \in (1..8) \cup (10..15) : IsDigit(t[i])
    /\ t[9] = "T" /\ t[16] = "Z"
    /\ Number(t, 1, 4) >= 1
    /\ Number(t, 5, 6) \in 1..12
    /\ Number(t, 7, 8) >= 1
    /\ Number(t, 7, 8) <= days_in_month(Number(t, 1, 4), Number(t, 5, 6))
    /\ Number(t, 10, 11) <= 23 /\ Number(t, 12, 13) <= 59 /\ Number(t, 14, 15) <= 59

StrictIssue(t) ==
    datetime(Number(t, 1, 4), Number(t, 5, 6), Number(t, 7, 8),
             Number(t, 10, 11), Number(t, 12, 13), Number(t, 14, 15), 0)

\* decimal digits, a "-" before them or not
StrictInteger(t) ==
    /\ t # <<>>
    /\ \A i \in 1..Len(t) : IsDigit(t[i]) \/ (i = 1 /\ t[i] = "-" /\ Len(t) > 1)

StrictSeconds(t) ==
    IF t[1] = "-" THEN -Number(t, 2, Len(t)) ELSE Number(t, 1, Len(t))

\* text with a character no integer literal has
NotAnInteger(t) == \E i \in 1..Len(t) : ~IsDigit(t[i]) /\ t[i] \notin {"+", "-", " ", "_"}

\* each of the two names occurs once, with the values d and e
CarriesOnce(d, e) == Carried(XAmzDate) = <<d>> /\ Carried(XAmzExpires) = <<e>>

\* C1: a single-argument run whose URL carries a well-formed X-Amz-Date and
\* a well-formed integer X-Amz-Expires prints exactly one verdict and exits
\* with status 0; the verdict is "still valid" if and only if the instant read
\* is before issue time + seconds, and "has expired" otherwise.
C1_VerdictForWellFormedInput ==
    (Finished /\ UrlWasParsed) =>
        \A d \in DateValues, e \in ExpiresValues :
            (CarriesOnce(d, e) /\ StrictDate(d) /\ StrictInteger(e)) =>
                /\ status = <<0>>
                /\ Count(stdout, IsVerdict) = 1
                /\ Len(e) <= 9 =>
                      (stdout[Len(stdout)] = ValidLine
                          <=> Elapsed(StrictIssue(d), now) < StrictSeconds(e))

\* C3: a single-argument run whose URL gives a query string without a field
\* X-Amz-Date or without a field X-Amz-Expires prints the missing-parameter
\* line and nothing else, and exits with status 1.
C3_MissingParameter ==
    (Finished /\ SingleArgument /\ (Lacks(XAmzDate) \/ Lacks(XAmzExpires))) =>
        /\ stdout = <<MissingLine>>
        /\ stderr = <<>>
        /\ status = <<1>>
        /\ Count(stdout, IsTimestamp) = 0 /\ Count(stdout, IsVerdict) = 0

\* C4: a run whose X-Amz-Date is not of the form YYYYMMDD'T'HHMMSS'Z' (or
\* names no existing instant), or whose X-Amz-Expires is no integer, does not
\* get past the parsing of the two values and prints no timestamp line and no
\* verdict: it prints the parse diagnostic and nothing else, and exits with
\* status 1.
C4_ParseDiagnostic ==
    UrlWasParsed =>
        \A d \in DateValues \ {Blank}, e \in ExpiresValues \ {Blank} :
            (CarriesOnce(d, e) /\ (~StrictDate(d) \/ NotAnInteger(e))) =>
                /\ pc \in {"lookup", "present", "try", "exited"}
                /\ Count(stdout, IsTimestamp) = 0 /\ Count(stdout, IsVerdict) = 0
                /\ Finished =>
                      /\ status = <<1>>
                      /\ Len(stdout) = 1
                      /\ IsParseError(stdout[1])

\* C8: a run whose X-Amz-Expires is a negative integer succeeds: four lines,
\* the expiry printed being before the issue time printed, the verdict
\* following from instant read < expiry, and exit status 0.
C8_NegativeExpiresAccepted ==
    (Finished /\ UrlWasParsed) =>
        \A d \in DateValues, e \in ExpiresValues :
            (CarriesOnce(d, e) /\ StrictDate(d) /\ StrictInteger(e) /\ e[1] = "-"
             /\ Len(e) <= 9 /\ StrictSeconds(e) < 0) =>
                /\ status = <<0>>
                /\ Len(stdout) = 4
                /\ TextLess(stdout[2].value, stdout[1].value)
                /\ stdout[4] = ValidLine <=> TextLess(stdout[3].value, stdout[2].value)

\* C9: the argument count is checked first, then the presence of the two
\* parameters, then their values, and the first check that fails ends the
\* run: a run prints at most one diagnostic and nothing after it, a parse
\* diagnostic is printed only for a URL that has both parameters, and a URL
\* without one parameter and with a malformed value of the other gets the
\* missing-parameter line.
C9_FirstFailingCheckEndsTheRun ==
    /\ Count(stdout, IsDiagnostic) <= 1
    /\ Count(stdout, IsDiagnostic) = 1 => (Finished /\ Len(stdout) = 1 /\ status = <<1>>)
    /\ (stdout # <<>> /\ stdout[1] = MissingLine) => SingleArgument
    /\ (stdout # <<>> /\ IsParseError(stdout[1])) =>
          (SingleArgument /\ ~Lacks(XAmzDate) /\ ~Lacks(XAmzExpires))
    /\ (Finished /\ SingleArgument) =>
          /\ (Lacks(XAmzDate) /\ \E i \in 1..Len(Carried(XAmzExpires)) :
                                     NotAnInteger(Carried(XAmzExpires)[i]))
                => stdout = <<MissingLine>>
          /\ (Lacks(XAmzExpires) /\ \E i \in 1..Len(Carried(XAmzDate)) :
                                        ~StrictDate(Carried(XAmzDate)[i]))
                => stdout = <<MissingLine>>

(***************************************************************************)
(* A URL with some of the fields of its query string taken out             *)
(***************************************************************************)
\* the part of the URL from its first "#" on
UrlFragment(u) == From(u, Len(BeforeFragment(u)) + 1)

\* the URL u with the fields given for its query string
WithFields(u, fields) ==
    IF Contains(BeforeFragment(u), "?")
    THEN Split1(BeforeFragment(u), "?")[1] \o <<"?">> \o Join(fields, "&") \o UrlFragment(u)
    ELSE u

\* the fields without those called name that come after the first called so
RECURSIVE DropLater(_, _, _)
DropLater(fields, name, seen) ==
    IF fields = <<>> THEN <<>>
    ELSE IF ~IsNamed(fields[1], name) THEN <<fields[1]>> \o DropLater(Tail(fields), name, seen)
    ELSE IF seen THEN DropLater(Tail(fields), name, TRUE)
    ELSE <<fields[1]>> \o DropLater(Tail(fields), name, TRUE)

\* the fields without those called name, the first of them that has a value
\* excepted
RECURSIVE DropUnused(_, _, _)
DropUnused(fields, name, seen) ==
    IF fields = <<>> THEN <<>>
    ELSE IF ~IsNamed(fields[1], name) THEN <<fields[1]>> \o DropUnused(Tail(fields), name, seen)
    ELSE IF seen \/ FieldValue(fields[1]) = <<>> THEN DropUnused(Tail(fields), name, seen)
    ELSE <<fields[1]>> \o DropUnused(Tail(fields), name, TRUE)

\* the URL with the later occurrences of the two names removed
FirstOccurrences(u) ==
    WithFields(u, DropLater(DropLater(Split(QueryText(u), "&"), XAmzDate, FALSE),
                            XAmzExpires, FALSE))

\* the URL with, of each of the two names, the first occurrence that has a
\* value and no other
FirstValues(u) ==
    WithFields(u, DropUnused(DropUnused(Split(QueryText(u), "&"), XAmzDate, FALSE),
                             XAmzExpires, FALSE))

\* the first text of the list that is not empty, None when there is none
RECURSIVE FirstNonEmpty(_)
FirstNonEmpty(values) ==
    IF values = <<>> THEN None
    ELSE IF values[1] # <<>> THEN Str(values[1])
    ELSE FirstNonEmpty(Tail(values))

Repeats(name) == Len(Carried(name)) >= 2

\* C7 as the specification states it: when X-Amz-Date or X-Amz-Expires occurs
\* more than once, the run writes what the run of the URL without the later
\* occurrences writes, and ends as it ends, whatever the later values are.
C7_FirstOccurrenceOnly ==
    (Finished /\ UrlWasParsed /\ (Repeats(XAmzDate) \/ Repeats(XAmzExpires))) =>
        Observed = Outcome(<<Prog, FirstOccurrences(argv[2])>>, Sampled)

\* C7, amended: when X-Amz-Date or X-Amz-Expires occurs more than once, the
\* value used for a name is that of its first occurrence with a non-empty value
\* (none when every occurrence is empty), and the run writes what the run of
\* the URL with the name's other occurrences removed writes, and ends as it
\* ends, whatever the values of the other occurrences are.
C7_FirstNonEmptyOccurrenceOnly ==
    (UrlWasParsed /\ (Repeats(XAmzDate) \/ Repeats(XAmzExpires))) =>
        /\ pc \notin {"argc", "urlparse", "lookup"} =>
              /\ amz_date = FirstNonEmpty(Carried(XAmzDate))
              /\ expires.tag \in {"str", "None"} =>
                    expires = FirstNonEmpty(Carried(XAmzExpires))
        /\ Finished => Observed = Outcome(<<Prog, FirstValues(argv[2])>>, Sampled)

\* a successful run of a URL whose second X-Amz-Date is no date
C7_Witness ==
    /\ Finished
    /\ UrlWasParsed
    /\ Carried(XAmzDate) = <<DateGood, DateBad>>
    /\ Carried(XAmzExpires) = <<ExpHour>>
    /\ status = <<0>>
    /\ stdout[1] = GeneratedLine(StrictIssue(DateGood))

=============================================================================
